---- MODULE Spec2Model ----
(***************************************************************************)
(* A model of two smatch checkers: the units checker (smatch_units.c) and  *)
(* the parameter-to-mtag-data checker (unnamed/part_000).                   *)
(*                                                                         *)
(* The host (smatch core) is external: it walks the analysed function and  *)
(* calls the registered hooks one at a time.  Each hook is one action       *)
(* here; the expression (and the host's answers about it: pos_ident,        *)
(* get_macro_name, get_implied_value, get_member_name, get_type,            *)
(* get_param_num) is the action's input, drawn from small sets.             *)
(***************************************************************************)
EXTENDS Integers, Sequences, FiniteSets, TLC

VARIABLES
    pc,          \* "entry": caller_info hooks run; "body": statements are walked
    states,      \* Path Environment of the units checker: variable name -> smatch_state
    start_states,\* get_start_states(): the environment at function entry
    member,      \* what get_member_name() answers for the expression "m"
    type_info,   \* rows of the type_info table (MemberUnit facts), oldest first
    ev,          \* the last hook that changed or reported something
    out,         \* rows that hook inserted into the write-only tables
    msgs,        \* diagnostics that hook emitted
    join,        \* the last application of a merge hook by the host
    mtag         \* the parameter-to-mtag-data checker: its Path Environment and rows

vars == <<pc, states, start_states, member, type_info, ev, out, msgs, join, mtag>>

----------------------------------------------------------------------------
(* Bounds of the model. *)

\* most rows the type_info table may hold
MaxRows == 3

----------------------------------------------------------------------------
(* smatch_state objects.  A state is compared by identity in the C code;    *)
(* the units states are singletons, so identity is equality of the name.   *)

SmatchState(n) == [name |-> n, data |-> <<>>]

NULL == [name |-> "(null)", data |-> <<>>]

undefined == SmatchState("undefined")
merged == SmatchState("merged")

bit == SmatchState("bit")
byte == SmatchState("byte")
array_size == SmatchState("array_size")
longs == SmatchState("longs")
page == SmatchState("page")
msec == SmatchState("msec")
jiffy == SmatchState("jiffy")

UnitKinds == {bit, byte, array_size, longs, page, msec, jiffy}

UnitStates == UnitKinds \cup {undefined, merged}

\* a char* that is NULL
NullStr == "(nullstr)"

str_to_units(str) ==
    IF str = NullStr THEN NULL
    ELSE IF str = "bit" THEN bit
    ELSE IF str = "byte" THEN byte
    ELSE IF str = "page" THEN page
    ELSE IF str = "msec" THEN msec
    ELSE IF str = "jiffy" THEN jiffy
    ELSE IF str = "longs" THEN longs
    ELSE IF str = "array_size" THEN array_size
    ELSE IF str = "unknown" THEN NULL
    ELSE NULL

----------------------------------------------------------------------------
(* The merge hooks of the two checkers. *)

merge_units_drop_other(s1, s2) ==
    IF s1 = undefined THEN s1
    ELSE IF s2 = undefined THEN s1
    ELSE merged

merge_units(s1, s2) ==
    IF s1 = undefined THEN s2
    ELSE IF s2 = undefined THEN s1
    ELSE merged

\* struct tag_assign_info inside a freshly allocated smatch_state
alloc_tag_data_state(tag, data_name, offset, param) ==
    [name |-> data_name, data |-> <<tag, offset, param>>]

merge_tag_info(s1, s2) ==
    IF s1 = undefined THEN s2
    ELSE IF s2 = undefined THEN s1
    ELSE merged

----------------------------------------------------------------------------
(* Expressions.  An expression is a record that carries the host's answers *)
(* about it: pos_ident(expr->pos), get_macro_name(expr->pos), the set of    *)
(* values get_implied_value() finds (empty when it finds none), whether     *)
(* get_type() is a pointer or an array, and get_param_num_from_sym().       *)

NoExpr == [type |-> "NONE"]
NoMember == <<>>

\* get_member_name() answers "(struct x)->field"; kept as <<struct, field>>
vm_pgoff == <<"(struct vm_area_struct)", "->vm_pgoff">>
anon_val == <<"(union anonymous)", "->__val">>
fs_parse == <<"(struct fs_parse_result)", "->uint_32">>
s_len == <<"(struct s)", "->len">>

Expr(type, name, ident, macro, implied, ptr, param) ==
    [type |-> type, name |-> name, pos_ident |-> ident, macro |-> macro,
     implied |-> implied, ptr |-> ptr, param |-> param,
     op |-> "", left |-> NoExpr, right |-> NoExpr, fn |-> "", args |-> <<>>]

Sym(name, param) == Expr("EXPR_SYMBOL", name, "", "", {}, FALSE, param)
Deref(name) == Expr("EXPR_DEREF", name, "", "", {}, FALSE, -1)
Value(v) == Expr("EXPR_VALUE", "", "", "", {v}, FALSE, -1)
Macro(type, ident, v) == Expr(type, "", ident, ident, {v}, FALSE, -1)
Sizeof == Expr("EXPR_SIZEOF", "", "", "", {}, FALSE, -1)
PtrSizeof == Expr("EXPR_PTRSIZEOF", "", "", "", {}, FALSE, -1)

Binop(l, o, r, ident) ==
    [Expr("EXPR_BINOP", "", ident, ident, {}, FALSE, -1)
        EXCEPT !.op = o, !.left = l, !.right = r]
Compare(l, o, r) ==
    [Expr("EXPR_COMPARE", "", "", "", {}, FALSE, -1)
        EXCEPT !.op = o, !.left = l, !.right = r]
Assign(l, o, r) ==
    [Expr("EXPR_ASSIGNMENT", "", "", "", {}, FALSE, -1)
        EXCEPT !.op = o, !.left = l, !.right = r]
Call(f, a) ==
    [Expr("EXPR_CALL", "", "", "", {}, FALSE, -1)
        EXCEPT !.fn = f, !.args = a]
Paren(e) ==
    [Expr("EXPR_PREOP", "", "", "", {}, FALSE, -1)
        EXCEPT !.op = "(", !.left = e]

\* host: strip_expr() removes the parentheses around an expression
RECURSIVE strip_expr(_)
strip_expr(e) ==
    IF e.type = "EXPR_PREOP" /\ e.op = "(" THEN strip_expr(e.left) ELSE e

\* host: get_member_name(); the expression "m" is the member of the analysed
\* program, any other expression is no member
get_member_name(e, mem) ==
    IF e.type = "EXPR_DEREF" THEN mem ELSE NoMember

\* host: get_state_expr() / set_state_expr() work on expressions that name a
\* variable
get_state_expr(st, e) ==
    IF e.name \in DOMAIN st THEN st[e.name] ELSE NULL

set_state_expr(st, e, s) ==
    IF e.name \in DOMAIN st THEN [st EXCEPT ![e.name] = s] ELSE st

----------------------------------------------------------------------------
(* The units checker: queries.  c is the checker's context: the Path        *)
(* Environment, the type_info rows, the diagnostics emitted so far and the  *)
(* rows inserted so far into the write-only tables.                         *)

Cur == [states |-> states, type_info |-> type_info, member |-> member,
        msgs |-> <<>>, out |-> <<>>]

is_ignored_type(name) ==
    IF name = NoMember THEN FALSE
    ELSE IF name = anon_val THEN TRUE
    ELSE IF name[1] = "(struct fs_parse_result)" THEN TRUE
    ELSE FALSE

is_PAGE_SHIFT(expr) == expr.macro = "PAGE_SHIFT"
is_PAGE_SIZE(expr) == expr.macro = "PAGE_SIZE"
is_BITS_PER_LONG(expr) == expr.macro = "BITS_PER_LONG"

\* a callback that keeps the latest row
db_units_last_row(units, argv0) == argv0

\* a callback that keeps the first row
db_units_keep_first(units, argv0) ==
    IF units # NullStr THEN units ELSE argv0

\* the sqlite callback: *units after one more row
db_units(units, argv0) ==
    IF units # NullStr
    THEN IF units = argv0 THEN units ELSE "unknown"
    ELSE argv0

\* cache_sql()/run_sql(): db_units called on every selected row in turn
RECURSIVE run_sql(_, _, _)
run_sql(units, rows, key) ==
    IF rows = <<>> THEN units
    ELSE run_sql(IF Head(rows).key = key
                 THEN db_units(units, Head(rows).value) ELSE units,
                 Tail(rows), key)

get_units_from_type(c, expr) ==
    LET mem == get_member_name(expr, c.member)
    IN  IF mem = NoMember THEN NULL
        ELSE IF mem = vm_pgoff THEN page
        ELSE LET units == run_sql(NullStr, c.type_info, mem)
             IN  IF units = NullStr THEN NULL ELSE str_to_units(units)

\* a lookup that names the two conversion functions the wrong way round
get_units_call_swapped(expr0) ==
    LET expr == strip_expr(expr0)
    IN  IF expr.type # "EXPR_CALL" THEN NULL
        ELSE IF expr.fn = "msecs_to_jiffies" THEN msec
        ELSE IF expr.fn = "jiffies_to_msecs" THEN jiffy
        ELSE NULL

get_units_call(expr0) ==
    LET expr == strip_expr(expr0)
    IN  IF expr.type # "EXPR_CALL" THEN NULL
        ELSE IF expr.fn = "msecs_to_jiffies" THEN jiffy
        ELSE IF expr.fn = "jiffies_to_msecs" THEN msec
        ELSE NULL

get_units_ident(expr) ==
    IF expr.pos_ident = "sizeof" \/ expr.pos_ident = "PAGE_SIZE" THEN byte
    ELSE IF expr.pos_ident = "jiffies" THEN jiffy
    ELSE IF expr.pos_ident = "BITS_PER_LONG" THEN bit
    ELSE IF expr.pos_ident = "BITS_PER_LONG_LONG" THEN bit
    ELSE IF expr.pos_ident = "ARRAY_SIZE" THEN array_size
    ELSE NULL

\* a lookup that never consults the type_info table
get_units_env_no_fallback(c, expr) ==
    LET state == get_state_expr(c.states, expr)
    IN  IF state = merged \/ state = undefined THEN NULL ELSE state

get_units_env(c, expr) ==
    LET state == get_state_expr(c.states, expr)
    IN  IF state = merged \/ state = undefined THEN NULL
        ELSE IF state # NULL THEN state
        ELSE get_units_from_type(c, expr)

RECURSIVE get_units(_, _)
RECURSIVE binop_helper(_, _, _, _)

\* a helper whose multiply and divide answers are exchanged
binop_helper_swapped(c, left, op, right) ==
    CASE op \in {"-", "+"} ->
            LET left_state == get_units(c, left)
                right_state == get_units(c, right)
            IN  IF left_state = array_size \/ right_state = array_size THEN NULL
                ELSE IF left_state # NULL THEN left_state ELSE right_state
      [] op = "*" ->
            IF is_PAGE_SIZE(right) THEN page
            ELSE IF right.implied = {} THEN NULL
            ELSE IF 4096 \in right.implied THEN page
            ELSE NULL
      [] op = "/" ->
            IF is_BITS_PER_LONG(right) THEN longs
            ELSE IF is_PAGE_SIZE(right) THEN byte
            ELSE IF right.implied = {} THEN NULL
            ELSE IF 4096 \in right.implied THEN byte
            ELSE NULL
      [] op = "<<" -> IF is_PAGE_SHIFT(right) THEN byte ELSE NULL
      [] op = ">>" -> IF is_PAGE_SHIFT(right) THEN page ELSE NULL
      [] OTHER -> NULL

\* a helper that prefers the right operand's unit and keeps ArraySize
binop_helper_right_first(c, left, op, right) ==
    CASE op \in {"-", "+"} ->
            LET left_state == get_units(c, left)
                right_state == get_units(c, right)
            IN  IF right_state # NULL THEN right_state ELSE left_state
      [] op = "*" ->
            IF is_PAGE_SIZE(right) THEN byte
            ELSE IF right.implied = {} THEN NULL
            ELSE IF 4096 \in right.implied THEN byte
            ELSE NULL
      [] op = "/" ->
            IF is_BITS_PER_LONG(right) THEN longs
            ELSE IF is_PAGE_SIZE(right) THEN page
            ELSE IF right.implied = {} THEN NULL
            ELSE IF 4096 \in right.implied THEN page
            ELSE NULL
      [] op = "<<" -> IF is_PAGE_SHIFT(right) THEN byte ELSE NULL
      [] op = ">>" -> IF is_PAGE_SHIFT(right) THEN page ELSE NULL
      [] OTHER -> NULL

binop_helper(c, left, op, right) ==
    CASE op \in {"-", "+"} ->
            LET left_state == get_units(c, left)
                right_state == get_units(c, right)
            IN  IF left_state = array_size \/ right_state = array_size THEN NULL
                ELSE IF left_state # NULL THEN left_state ELSE right_state
      [] op = "*" ->
            IF is_PAGE_SIZE(right) THEN byte
            ELSE IF right.implied = {} THEN NULL
            ELSE IF 4096 \in right.implied THEN byte
            ELSE NULL
      [] op = "/" ->
            IF is_BITS_PER_LONG(right) THEN longs
            ELSE IF is_PAGE_SIZE(right) THEN page
            ELSE IF right.implied = {} THEN NULL
            ELSE IF 4096 \in right.implied THEN page
            ELSE NULL
      [] op = "<<" -> IF is_PAGE_SHIFT(right) THEN byte ELSE NULL
      [] op = ">>" -> IF is_PAGE_SHIFT(right) THEN page ELSE NULL
      [] OTHER -> NULL

get_units_binop(c, expr) == binop_helper(c, expr.left, expr.op, expr.right)

get_units(c, expr0) ==
    LET expr == strip_expr(expr0)
    IN  IF expr = NoExpr THEN NULL
        ELSE IF expr.type = "EXPR_PTRSIZEOF" \/ expr.type = "EXPR_SIZEOF" THEN byte
        ELSE IF get_units_ident(expr) # NULL THEN get_units_ident(expr)
        ELSE IF expr.type = "EXPR_BINOP" THEN get_units_binop(c, expr)
        ELSE IF expr.type = "EXPR_CALL" THEN get_units_call(expr)
        ELSE get_units_env(c, expr)

----------------------------------------------------------------------------
(* The units checker: updates. *)

\* a store that inserts without comparing with the earlier facts
store_type_in_db_no_warn(c, expr, state) ==
    LET mem == get_member_name(expr, c.member)
    IN  IF mem = NoMember THEN c
        ELSE IF is_ignored_type(mem) THEN c
        ELSE [c EXCEPT !.type_info = Append(@, [key |-> mem, value |-> state.name])]

store_type_in_db(c, expr, state) ==
    LET mem == get_member_name(expr, c.member)
        old_units == get_units_from_type(c, expr)
    IN  IF mem = NoMember THEN c
        ELSE IF is_ignored_type(mem) THEN c
        ELSE [c EXCEPT
                !.msgs = IF old_units # NULL /\ old_units # state
                         THEN Append(@, [warn |-> "other places set", name |-> mem,
                                         a |-> old_units.name, b |-> state.name])
                         ELSE @,
                !.type_info = Append(@, [key |-> mem, value |-> state.name])]

set_units(c, expr, state) ==
    IF state = NULL THEN c
    ELSE store_type_in_db(
            [c EXCEPT !.states = set_state_expr(@, expr, state)], expr, state)

----------------------------------------------------------------------------
(* The units checker: hooks.  Each maps the context before the hook to the  *)
(* context after it.                                                        *)

sm_msg(c, text, e, a, b) ==
    [c EXCEPT !.msgs = Append(@, [warn |-> text, name |-> e, a |-> a, b |-> b])]

sql_insert(c, table, param, key, value) ==
    [c EXCEPT !.out = Append(@, [table |-> table, param |-> param,
                                 key |-> key, value |-> value])]

\* an allocation hook that tags the byte operand itself
match_allocation_same_operand(c, info) ==
    LET pair == info.nr_elems # NoExpr /\ info.elem_size # NoExpr
        mult == info.total_size # NoExpr /\ info.total_size.type = "EXPR_BINOP"
                /\ info.total_size.op = "*"
        left == IF pair THEN info.nr_elems ELSE strip_expr(info.total_size.left)
        right == IF pair THEN info.elem_size ELSE strip_expr(info.total_size.right)
    IN  IF ~pair /\ ~mult THEN c
        ELSE LET c1 == IF get_units(c, left) = byte
                       THEN set_units(c, left, array_size) ELSE c
             IN  IF get_units(c1, right) = byte
                 THEN set_units(c1, right, array_size) ELSE c1

\* info: [nr_elems, elem_size, total_size], NoExpr for a NULL pointer
match_allocation(c, info) ==
    LET pair == info.nr_elems # NoExpr /\ info.elem_size # NoExpr
        mult == info.total_size # NoExpr /\ info.total_size.type = "EXPR_BINOP"
                /\ info.total_size.op = "*"
        left == IF pair THEN info.nr_elems ELSE strip_expr(info.total_size.left)
        right == IF pair THEN info.elem_size ELSE strip_expr(info.total_size.right)
    IN  IF ~pair /\ ~mult THEN c
        ELSE LET c1 == IF get_units(c, left) = byte
                       THEN set_units(c, right, array_size) ELSE c
             IN  IF get_units(c1, right) = byte
                 THEN set_units(c1, left, array_size) ELSE c1

check_mult(c, expr) ==
    LET left == get_units(c, expr.left)
        right == get_units(c, expr.right)
        bit_found == left = bit \/ right = bit
        byte_found == left = byte \/ right = byte
    IN  IF bit_found /\ byte_found
        THEN sm_msg(c, "multiplying bits * bytes", expr, "", "")
        ELSE c

\* a check that leaves array sizes alone
check_add_sub_skip_array_size(c, expr) ==
    LET left == get_units(c, expr.left)
        right == get_units(c, expr.right)
    IN  IF expr.left.ptr THEN c
        ELSE IF left = NULL \/ right = NULL \/ left = right THEN c
        ELSE IF left = array_size \/ right = array_size THEN c
        ELSE sm_msg(c, "missing conversion", expr, left.name, right.name)

check_add_sub(c, expr) ==
    LET left == get_units(c, expr.left)
        right == get_units(c, expr.right)
    IN  IF expr.left.ptr THEN c
        ELSE IF left = NULL \/ right = NULL \/ left = right THEN c
        ELSE sm_msg(c, "missing conversion", expr, left.name, right.name)

match_binop_check(c, expr) ==
    CASE expr.op \in {"+", "-"} -> check_add_sub(c, expr)
      [] expr.op = "*" -> check_mult(c, expr)
      [] OTHER -> c

\* a propagation that also overwrites a known left operand
propagate_units_overwrite(c, expr) ==
    LET left == get_units(c, expr.left)
        right == get_units(c, expr.right)
        c1 == IF left # NULL /\ right = NULL
              THEN set_units(c, expr.right, left) ELSE c
    IN  IF right # NULL
        THEN set_units(c1, expr.left, right) ELSE c1

\* the propagation both match_binop_set and match_condition_set end with
propagate_units(c, expr) ==
    LET left == get_units(c, expr.left)
        right == get_units(c, expr.right)
        c1 == IF left # NULL /\ right = NULL
              THEN set_units(c, expr.right, left) ELSE c
    IN  IF right # NULL /\ left = NULL
        THEN set_units(c1, expr.left, right) ELSE c1

\* a set hook whose shifts leave a known unit of the left operand alone
match_binop_set_keep_known(c, expr) ==
    IF expr.op \in {"<<", ">>"} /\ is_PAGE_SHIFT(expr.right)
    THEN IF get_units(c, expr.left) # NULL THEN c
         ELSE set_units(c, expr.left, IF expr.op = "<<" THEN page ELSE byte)
    ELSE IF expr.op # "+" /\ expr.op # "-" THEN c
    ELSE IF expr.left.ptr THEN c
    ELSE propagate_units(c, expr)

match_binop_set(c, expr) ==
    IF expr.op = "<<" /\ is_PAGE_SHIFT(expr.right) THEN set_units(c, expr.left, page)
    ELSE IF expr.op = ">>" /\ is_PAGE_SHIFT(expr.right) THEN set_units(c, expr.left, byte)
    ELSE IF expr.op # "+" /\ expr.op # "-" THEN c
    ELSE IF expr.left.ptr THEN c
    ELSE propagate_units(c, expr)

match_condition_check(c, expr) ==
    LET left == get_units(c, expr.left)
        right == get_units(c, expr.right)
    IN  IF expr.type # "EXPR_COMPARE" THEN c
        ELSE IF left = NULL \/ right = NULL THEN c
        ELSE IF left = right THEN c
        ELSE sm_msg(c, "comparing different units", expr, left.name, right.name)

match_condition_set(c, expr) ==
    IF expr.type # "EXPR_COMPARE" THEN c ELSE propagate_units(c, expr)

\* op_remove_assign(): ">>=" -> ">>" and so on
op_remove_assign(op) ==
    CASE op = ">>=" -> ">>"
      [] op = "<<=" -> "<<"
      [] op = "/=" -> "/"
      [] op = "*=" -> "*"
      [] OTHER -> op

match_assign(c, expr, in_fake_assign) ==
    LET state ==
            CASE expr.op = "=" -> get_units(c, expr.right)
              [] expr.op \in {">>=", "<<=", "/=", "*="} ->
                    binop_helper(c, expr.left, op_remove_assign(expr.op), expr.right)
              [] OTHER -> NULL
    IN  IF in_fake_assign THEN c
        ELSE IF state # NULL THEN set_units(c, expr.left, state)
        ELSE c

\* host: get_variable_from_key(arg, key, &sym): "$" is the argument itself
get_variable_from_key(arg, key) ==
    IF key = "$" /\ arg.name # "" THEN arg.name ELSE NullStr

\* host: set_state(my_id, name, sym, state)
set_state(c, name, state) ==
    [c EXCEPT !.states = IF name \in DOMAIN @ THEN [@ EXCEPT ![name] = state] ELSE @]

\* a consumer that records the implied unit with set_units()
set_implied_units_persist(c, call, arg, key, value) ==
    LET state == str_to_units(value)
        name == get_variable_from_key(arg, key)
    IN  IF state = NULL THEN c
        ELSE IF name = NullStr THEN c
        ELSE set_units(c, arg, state)

set_implied_units(c, call, arg, key, value) ==
    LET state == str_to_units(value)
        name == get_variable_from_key(arg, key)
    IN  IF state = NULL THEN c
        ELSE IF name = NullStr THEN c
        ELSE set_state(c, name, state)

set_param_units(c, name, key, value) ==
    LET state == str_to_units(value)
    IN  IF state = NULL THEN c ELSE set_state(c, name, state)

set_param_units_from_table(c, expr, name, data) ==
    LET state == str_to_units(data)
    IN  IF state = NULL THEN c ELSE set_state(c, name, state)

RECURSIVE call_info_args(_, _, _)
call_info_args(c, args, param) ==
    IF args = <<>> THEN c
    ELSE LET state == get_units(c, Head(args))
         IN  call_info_args(
                IF state = NULL THEN c
                ELSE sql_insert(c, "caller_info", param + 1, "$", state.name),
                Tail(args), param + 1)

match_call_info(c, expr) ==
    IF expr.fn = "" THEN c ELSE call_info_args(c, expr.args, -1)

\* the formal parameters of the analysed function, in order
Arguments == <<"p", "a">>

RECURSIVE process_args(_, _, _, _)
process_args(c, start, args, param) ==
    IF args = <<>> THEN c
    ELSE LET state == c.states[Head(args)]
             start_state == start[Head(args)]
         IN  process_args(
                IF state = NULL \/ state = merged \/ state = undefined THEN c
                ELSE IF state = start_state THEN c
                ELSE sql_insert(c, "return_implies", param + 1, "$", state.name),
                start, Tail(args), param + 1)

\* a summary that forgets the start states
process_states_no_start(c, start) ==
    process_args(c, [n \in DOMAIN start |-> NULL], Arguments, -1)

process_states(c, start) == process_args(c, start, Arguments, -1)

\* a hook that warns at return statements too
pre_merge_hook_warn_at_return(c, name, cur, other, stmt_return) ==
    IF cur = other THEN c
    ELSE IF cur = undefined \/ cur = merged \/ other = undefined \/ other = merged
    THEN c
    ELSE sm_msg(c, "ambiguous units merge", name, cur.name, other.name)

pre_merge_hook(c, name, cur, other, stmt_return) ==
    IF cur = other THEN c
    ELSE IF cur = undefined \/ cur = merged \/ other = undefined \/ other = merged
    THEN c
    ELSE IF ~stmt_return
    THEN sm_msg(c, "ambiguous units merge", name, cur.name, other.name)
    ELSE c

----------------------------------------------------------------------------
(* The analysed program: the expressions the host hands to the hooks.       *)

P == Expr("EXPR_SYMBOL", "p", "", "", {}, TRUE, 0)
A == Sym("a", 1)
M == Deref("m")
K4096 == Value(4096)
K8 == Value(8)
PAGE_SIZE == Macro("EXPR_VALUE", "PAGE_SIZE", 4096)
PAGE_SHIFT == Macro("EXPR_VALUE", "PAGE_SHIFT", 12)
BITS_PER_LONG == Macro("EXPR_VALUE", "BITS_PER_LONG", 64)
\* ARRAY_SIZE(x) expands to sizeof(x) / sizeof(x[0]), all at the macro's position
ARRAY_SIZE == Binop(Sizeof, "/", Sizeof, "ARRAY_SIZE")

VarNames == {"p", "a", "m"}
Members == {s_len, vm_pgoff, anon_val, fs_parse}

AssignExprs ==
    {Assign(M, "=", r) : r \in {Sizeof, Binop(A, "/", K4096, ""), A}}
    \cup {Assign(P, "=", Call(f, <<A>>)) : f \in {"f", "msecs_to_jiffies"}}
    \cup {Assign(M, ">>=", PAGE_SHIFT), Assign(M, "+=", Sizeof)}

BinopExprs ==
    {Binop(A, "+", M, ""), Binop(A, "-", M, ""), Binop(P, "+", M, ""),
     Binop(M, "*", BITS_PER_LONG, ""),
     Binop(A, "<<", PAGE_SHIFT, ""), Binop(A, ">>", PAGE_SHIFT, ""),
     Binop(A, "<<", K8, "")}

ConditionExprs == {Compare(A, "<", M), Compare(M, "==", Sizeof), A}

NoInfo == [nr_elems |-> NoExpr, elem_size |-> NoExpr, total_size |-> NoExpr]
AllocationInfos ==
    {[NoInfo EXCEPT !.nr_elems = A, !.elem_size = e] :
        e \in {Sizeof, M, Call("f", <<A>>)}}
    \cup {[NoInfo EXCEPT !.total_size = t] :
            t \in {Binop(Paren(A), "*", Paren(Sizeof), ""), Binop(A, "+", M, "")}}
    \cup {NoInfo}

CallExprs == {Call("f", <<A, M>>), Call("", <<A>>)}

\* values a persisted fact may carry
FactValues == {"byte", "unknown", "pages"}

\* the states another path may hold for a variable at a join
OtherStates == {undefined, page}

func_table == {[name |-> "msecs_to_jiffies_timeout", param |-> -1, key |-> "$", value |-> "jiffy"],
               [name |-> "round_jiffies_up_relative", param |-> -1, key |-> "$", value |-> "jiffy"]}

----------------------------------------------------------------------------
(* The parameter-to-mtag-data checker at the start of a function: the       *)
(* expressions that can hold a TagAssignInfo have no state, no call site    *)
(* is being processed and nothing was inserted.                             *)

TagVars == {"p", "d"}

MtagStart ==
    [states |-> [n \in TagVars |-> NULL],
     site |-> NoExpr, nfacts |-> 0, out |-> <<>>, ev |-> "start"]

----------------------------------------------------------------------------
(* The host's walk over one function after another.                         *)

NoJoin == [owner |-> "none"]

Init ==
    /\ pc = "entry"
    /\ states = [n \in VarNames |-> NULL]
    /\ start_states = [n \in {Arguments[i] : i \in DOMAIN Arguments} |-> NULL]
    /\ member \in Members
    /\ type_info = <<>>
    /\ ev = "init"
    /\ out = <<>>
    /\ msgs = <<>>
    /\ join = NoJoin
    /\ mtag = MtagStart

\* the hook's effects become the new state; a hook that returned without
\* changing or reporting anything leaves no trace
Commit(c, hook) ==
    /\ Len(c.type_info) <= MaxRows
    /\ states' = c.states
    /\ type_info' = c.type_info
    /\ IF c.states = states /\ c.type_info = type_info /\ c.msgs = <<>> /\ c.out = <<>>
       THEN UNCHANGED <<msgs, out, ev>>
       ELSE msgs' = c.msgs /\ out' = c.out /\ ev' = hook
    /\ UNCHANGED <<member, join, mtag>>

\* select_caller_info_hook: at function entry, one call per persisted fact
SetParamUnits ==
    /\ pc = "entry"
    /\ \E value \in FactValues :
          Commit(set_param_units(Cur, "a", "$", value),
                 "set_param_units")
    /\ UNCHANGED <<pc, start_states>>

\* host: the start states are saved and the walk over the body begins
FuncStart ==
    /\ pc = "entry"
    /\ pc' = "body"
    /\ start_states' = [n \in DOMAIN start_states |-> states[n]]
    /\ ev' = "start"
    /\ out' = <<>>
    /\ msgs' = <<>>
    /\ UNCHANGED <<states, member, type_info, join, mtag>>

MatchAssign ==
    /\ pc = "body"
    /\ \E e \in AssignExprs, fake \in BOOLEAN :
          Commit(match_assign(Cur, e, fake), "match_assign")
    /\ UNCHANGED <<pc, start_states>>

MatchBinopCheck ==
    /\ pc = "body"
    /\ \E e \in BinopExprs :
          Commit(match_binop_check(Cur, e), "match_binop_check")
    /\ UNCHANGED <<pc, start_states>>

MatchBinopSet ==
    /\ pc = "body"
    /\ \E e \in BinopExprs :
          Commit(match_binop_set(Cur, e), "match_binop_set")
    /\ UNCHANGED <<pc, start_states>>

MatchConditionCheck ==
    /\ pc = "body"
    /\ \E e \in ConditionExprs :
          Commit(match_condition_check(Cur, e), "match_condition_check")
    /\ UNCHANGED <<pc, start_states>>

MatchConditionSet ==
    /\ pc = "body"
    /\ \E e \in ConditionExprs :
          Commit(match_condition_set(Cur, e), "match_condition_set")
    /\ UNCHANGED <<pc, start_states>>

MatchAllocation ==
    /\ pc = "body"
    /\ \E info \in AllocationInfos :
          Commit(match_allocation(Cur, info), "match_allocation")
    /\ UNCHANGED <<pc, start_states>>

MatchCallInfo ==
    /\ pc = "body"
    /\ \E e \in CallExprs :
          Commit(match_call_info(Cur, e), "match_call_info")
    /\ UNCHANGED <<pc, start_states>>

\* select_return_implies_hook: one call per fact persisted about the callee
SetImpliedUnits ==
    /\ pc = "body"
    /\ \E e \in CallExprs, i \in 1..2, value \in FactValues :
          /\ i <= Len(e.args)
          /\ Commit(set_implied_units(Cur, e, e.args[i], "$", value),
                    "set_implied_units")
    /\ UNCHANGED <<pc, start_states>>

\* add_function_param_key_hook: a call of a func_table function whose return
\* value ("$" of param -1) is the variable "p"
SetParamUnitsFromTable ==
    /\ pc = "body"
    /\ \E info \in func_table :
          Commit(set_param_units_from_table(Cur, Call(info.name, <<A>>), "p", info.value),
                 "set_param_units_from_table")
    /\ UNCHANGED <<pc, start_states>>

\* all_return_states_hook: at a return statement
ProcessStates ==
    /\ pc = "body"
    /\ Commit(process_states(Cur, start_states), "process_states")
    /\ UNCHANGED <<pc, start_states>>

\* host: two paths join; the pre-merge hook, then the merge hook, run for a
\* variable whose states are cur (this path) and other (the other path)
MergeStates ==
    /\ pc = "body"
    /\ \E n \in {"a", "m"}, other \in OtherStates, stmt_return \in BOOLEAN :
          LET cur == IF states[n] = NULL THEN undefined ELSE states[n]
              c == pre_merge_hook(Cur, n, cur, other, stmt_return)
          IN  Commit(set_state(c, n, merge_units(cur, other)),
                     "merge")
    /\ UNCHANGED <<pc, start_states>>

\* host: the function ends and its Path Environment is discarded
EndFunction ==
    /\ pc = "body"
    /\ pc' = "entry"
    /\ states' = [n \in VarNames |-> NULL]
    /\ start_states' = [n \in DOMAIN start_states |-> NULL]
    /\ ev' = "end"
    /\ out' = <<>>
    /\ msgs' = <<>>
    /\ UNCHANGED <<member, type_info, join, mtag>>

Next ==
    \/ SetParamUnits
    \/ FuncStart
    \/ MatchAssign
    \/ MatchBinopCheck
    \/ MatchBinopSet
    \/ MatchConditionCheck
    \/ MatchConditionSet
    \/ MatchAllocation
    \/ MatchCallInfo
    \/ SetImpliedUnits
    \/ SetParamUnitsFromTable
    \/ ProcessStates
    \/ MergeStates
    \/ EndFunction

Spec == Init /\ [][Next]_vars

----------------------------------------------------------------------------
(* The merge hooks on their own: the host joins three paths, in either      *)
(* grouping, for one variable of one checker.                               *)

\* the TagAssignInfo states match_assign and propogate_assignment allocate
TagStates ==
    {alloc_tag_data_state(tag, "$->[8]", offset, param) :
        tag \in {1, 2}, offset \in {0, 8}, param \in {0, 1}}
    \cup {undefined, merged}

\* the merge hook registered for a checker
merge(owner, s1, s2) ==
    IF owner = "units" THEN merge_units(s1, s2) ELSE merge_tag_info(s1, s2)

Join(owner, s1, s2, s3) ==
    [owner |-> owner, s1 |-> s1, s2 |-> s2, s3 |-> s3,
     ab |-> merge(owner, s1, s2), ba |-> merge(owner, s2, s1),
     ab_c |-> merge(owner, merge(owner, s1, s2), s3),
     a_bc |-> merge(owner, s1, merge(owner, s2, s3))]

InitMerge ==
    /\ pc = "entry"
    /\ states = [n \in VarNames |-> NULL]
    /\ start_states = [n \in {Arguments[i] : i \in DOMAIN Arguments} |-> NULL]
    /\ member = s_len
    /\ type_info = <<>>
    /\ ev = "init"
    /\ out = <<>>
    /\ msgs = <<>>
    /\ join = NoJoin
    /\ mtag = MtagStart

JoinUnits ==
    /\ \E s1 \in UnitStates, s2 \in UnitStates, s3 \in UnitStates :
          join' = Join("units", s1, s2, s3)
    /\ UNCHANGED <<pc, states, start_states, member, type_info, ev, out, msgs, mtag>>

JoinTagInfo ==
    /\ \E s1 \in TagStates, s2 \in TagStates, s3 \in TagStates :
          join' = Join("tag", s1, s2, s3)
    /\ UNCHANGED <<pc, states, start_states, member, type_info, ev, out, msgs, mtag>>

NextMerge == JoinUnits \/ JoinTagInfo

SpecMerge == InitMerge /\ [][NextMerge]_vars

IsConcrete(s) == s # undefined /\ s # merged

\* C1: merge is idempotent in both checkers: merging a state with itself,
\* a Concrete state included, gives that state back and never Merged.
C1_MergeIdempotent ==
    (join.owner # "none" /\ join.s1 = join.s2) => join.ab = join.s1

\* C2: for both merge hooks Undefined is a two-sided identity, two distinct
\* Concrete states merge to Merged, Merged absorbs every state, and the merge
\* is commutative and associative.
C2_MergeLattice ==
    join.owner # "none" =>
        /\ join.s1 = undefined => join.ab = join.s2
        /\ join.s2 = undefined => join.ab = join.s1
        /\ (IsConcrete(join.s1) /\ IsConcrete(join.s2) /\ join.s1 # join.s2)
                => join.ab = merged
        /\ (join.s1 = merged \/ join.s2 = merged) => join.ab = merged
        /\ join.ab = join.ba
        /\ join.ab_c = join.a_bc

C2_Witness ==
    /\ join.owner = "tag"
    /\ IsConcrete(join.s1) /\ IsConcrete(join.s2) /\ join.s1 # join.s2
    /\ join.s3 = undefined
    /\ join.ab = merged /\ join.a_bc = merged

----------------------------------------------------------------------------
(* The fact store. *)

\* the distinct values inserted so far for a member key
Inserted(key) == {type_info[i].value : i \in {j \in DOMAIN type_info : type_info[j].key = key}}

\* C3: once two distinct unit values have been inserted for a member key,
\* every later lookup of that key gives no unit, whatever is inserted after.
C3_WideningPermanent ==
    Cardinality(Inserted(member)) >= 2 => get_units_from_type(Cur, M) = NULL

\* C3 as amended: the same for every member key but the hard-coded
\* (struct vm_area_struct)->vm_pgoff, whose lookup is always Page.
C3_WideningPermanentButPgoff ==
    /\ (member # vm_pgoff /\ Cardinality(Inserted(member)) >= 2)
            => get_units_from_type(Cur, M) = NULL
    /\ member = vm_pgoff => get_units_from_type(Cur, M) = page

C3_Witness ==
    /\ member = s_len
    /\ Len(type_info) = 3
    /\ type_info[1].value = "byte" /\ type_info[2].value = "page"
    /\ type_info[3].value = "byte"
    /\ get_units_from_type(Cur, M) = NULL

ReturnOrCallHooks == {"process_states", "match_call_info"}
SetUnitsHooks == {"match_assign", "match_binop_set", "match_condition_set",
                  "match_allocation"}

\* C4: facts are written only by the function-return and call-site hooks;
\* no assignment, binary-op-set, condition-set or allocation hook inserts one.
C4_WritesOnlyAtReturnOrCall ==
    [][(type_info' # type_info \/ (out' # <<>> /\ <<out', ev'>> # <<out, ev>>))
            => ev' \in ReturnOrCallHooks]_vars

\* C4 as amended: return_implies and caller_info rows are written only by
\* the function-return and call-site hooks, and MemberUnit rows only by the
\* hooks that call set_units: assignment, binary-op-set, condition-set and
\* allocation.
C4_WritesByHook ==
    [][/\ type_info' # type_info => ev' \in SetUnitsHooks
       /\ out' # <<>> => ev' \in ReturnOrCallHooks
       /\ \A i \in DOMAIN out' :
            out'[i].table = (IF ev' = "process_states" THEN "return_implies"
                             ELSE "caller_info")]_vars

C4_Witness ==
    /\ ev = "match_condition_set"
    /\ states["a"] = byte /\ states["m"] = byte
    /\ type_info = <<[key |-> s_len, value |-> "byte"]>>

----------------------------------------------------------------------------
(* The interprocedural summary. *)

Row(table, param, key, value) ==
    [table |-> table, param |-> param, key |-> key, value |-> value]

RowSet(rows) == {rows[i] : i \in DOMAIN rows}

\* the return_implies rows a return statement is to persist when every
\* parameter in Changed gets one
ReturnRows(Changed) ==
    {Row("return_implies", i - 1, "$", states[Arguments[i]].name) :
        i \in {j \in DOMAIN Arguments : Arguments[j] \in Changed}}

\* a variable without a state holds no information, as one that is Undefined
NoneIsUndefined(s) == IF s = NULL THEN undefined ELSE s

\* C5: at a return, process_states persists one ReturnImplication fact for
\* every parameter whose exit state differs from its entry state (an exit
\* state of Merged included), and none for a parameter whose state is the same.
C5_ReturnImplications ==
    pc = "body" =>
        LET c == process_states(Cur, start_states)
            Changed == {n \in DOMAIN start_states :
                            NoneIsUndefined(states[n]) # NoneIsUndefined(start_states[n])}
        IN  /\ RowSet(c.out) = ReturnRows(Changed)
            /\ Len(c.out) = Cardinality(Changed)

\* C5 as amended: one fact for every parameter whose exit state is a
\* Concrete unit that differs from its entry state, and none for a parameter
\* whose exit state is the entry state, Merged, Undefined or absent.
C5_ReturnImplicationsConcrete ==
    pc = "body" =>
        LET c == process_states(Cur, start_states)
            Changed == {n \in DOMAIN start_states :
                            /\ states[n] \in UnitKinds
                            /\ states[n] # start_states[n]}
        IN  /\ RowSet(c.out) = ReturnRows(Changed)
            /\ Len(c.out) = Cardinality(Changed)

C5_Witness ==
    /\ ev = "process_states"
    /\ start_states["a"] = byte /\ states["a"] = page
    /\ states["p"] = jiffy
    /\ out = <<Row("return_implies", 0, "$", "jiffy"), Row("return_implies", 1, "$", "page")>>

\* the statements x = f(y) of C6; f is any analysed function
CallAssigns(Fns) ==
    {[x |-> xy[1], y |-> xy[2], call |-> Call(f, <<xy[2]>>)] :
        xy \in {<<P, A>>, <<M, A>>, <<A, M>>}, f \in Fns}

\* the context after the function-call hooks and the assignment hook of
\* x = f(y); the callee's summary implies y's own unit for its parameter
AfterCallAssign(st) ==
    LET U == get_units(Cur, st.y)
        c1 == match_call_info(Cur, st.call)
        c2 == set_implied_units(c1, st.call, st.y, "$", U.name)
    IN  match_assign(c2, Assign(st.x, "=", st.call), FALSE)

\* C6: for x = f(y) with y of known unit U and f any analysed function that
\* returns its parameter, get_units(x) = U once the call and the assignment
\* have been processed.
C6_CallResultHasArgUnits ==
    pc = "body" =>
        \A st \in CallAssigns({"f"}) :
            get_units(Cur, st.y) # NULL
                => get_units(AfterCallAssign(st), st.x) = get_units(Cur, st.y)

\* C6 as amended: the call hook persists y's unit as a caller_info fact, and
\* x gets Tick from msecs_to_jiffies and Millisecond from jiffies_to_msecs;
\* for any other f the state of x is left as it was.
C6_CallResultUnits ==
    pc = "body" =>
        \A st \in CallAssigns({"f", "msecs_to_jiffies", "jiffies_to_msecs"}) :
            LET U == get_units(Cur, st.y)
                c == AfterCallAssign(st)
            IN  U # NULL =>
                    /\ RowSet(c.out) = {Row("caller_info", 0, "$", U.name)}
                    /\ st.call.fn = "msecs_to_jiffies" => get_units(c, st.x) = jiffy
                    /\ st.call.fn = "jiffies_to_msecs" => get_units(c, st.x) = msec
                    /\ st.call.fn = "f" => c.states[st.x.name] = states[st.x.name]

C6_Witness ==
    /\ ev = "match_assign"
    /\ get_units(Cur, A) = byte
    /\ get_units(Cur, P) = jiffy
    /\ states["m"] = NULL /\ type_info = <<>>

\* C7: when the Path Environment state of a member expression is Merged or
\* Undefined, get_units answers the unit of the persisted MemberUnit fact if
\* the store holds exactly one value for the member.
C7_FallbackWhenMerged ==
    \A v \in Inserted(member) :
        (states["m"] \in {merged, undefined} /\ Inserted(member) = {v})
            => get_units(Cur, M) = str_to_units(v)

\* C7 as amended: the fallback is taken when the Path Environment holds no
\* state for the expression (Page for the hard-coded vm_pgoff member); a
\* state of Merged or Undefined makes get_units answer unknown.
C7_FallbackWhenNoState ==
    /\ \A v \in Inserted(member) :
          (states["m"] = NULL /\ Inserted(member) = {v})
              => get_units(Cur, M) = (IF member = vm_pgoff THEN page ELSE str_to_units(v))
    /\ states["m"] \in {merged, undefined} => get_units(Cur, M) = NULL

C7_Witness ==
    /\ pc = "body"
    /\ member = s_len
    /\ states["m"] = NULL
    /\ Inserted(member) = {"byte"}
    /\ get_units(Cur, M) = byte

----------------------------------------------------------------------------
(* Diagnostics, allocation sizes and the syntactic rules. *)

Count(ms, text) == Cardinality({i \in DOMAIN ms : ms[i].warn = text})

AddSubExprs ==
    {Binop(l, o, r, "") : l \in {P, A, M}, o \in {"+", "-"}, r \in {A, M, Sizeof, ARRAY_SIZE}}

\* C8: the binary-op check of a + b or a - b emits exactly one "missing
\* conversion" warning when the units of a and b are two different known
\* units, neither of them ArraySize, and none in every other case.
C8_MissingConversion ==
    pc = "body" =>
        \A e \in AddSubExprs :
            LET l == get_units(Cur, e.left)
                r == get_units(Cur, e.right)
                n == Count(match_binop_check(Cur, e).msgs, "missing conversion")
            IN  IF l # NULL /\ r # NULL /\ l # r /\ l # array_size /\ r # array_size
                THEN n = 1 ELSE n = 0

\* C8 as amended: exactly one warning when the left operand is no pointer
\* or array and the units of a and b are two different known units, ArraySize
\* included; none when the left operand is a pointer or an array, when a unit
\* is unknown or when the two units are the same.
C8_MissingConversionAnyUnits ==
    pc = "body" =>
        \A e \in AddSubExprs :
            LET l == get_units(Cur, e.left)
                r == get_units(Cur, e.right)
                c == match_binop_check(Cur, e)
                n == Count(c.msgs, "missing conversion")
            IN  /\ IF ~e.left.ptr /\ l # NULL /\ r # NULL /\ l # r
                   THEN n = 1 ELSE n = 0
                /\ Len(c.msgs) = n
                /\ c.states = states /\ c.type_info = type_info

C8_Witness ==
    /\ ev = "match_binop_check"
    /\ Len(msgs) = 1
    /\ msgs[1].warn = "missing conversion"
    /\ msgs[1].name = Binop(A, "+", M, "")
    /\ msgs[1].a = "byte" /\ msgs[1].b = "page"
    /\ get_units(Cur, A) = byte /\ get_units(Cur, M) = page

Operands == {A, M, Sizeof, Call("f", <<A>>), Binop(A, "+", M, "")}

AllocationShapes ==
    {[NoInfo EXCEPT !.nr_elems = l, !.elem_size = r] : l \in Operands, r \in Operands}
    \cup {[NoInfo EXCEPT !.total_size = Binop(Paren(l), "*", r, "")] :
            l \in {A, Sizeof}, r \in {M, Sizeof, P}}

\* the two operands match_allocation looks at
CountOf(info) ==
    IF info.nr_elems # NoExpr THEN info.nr_elems ELSE strip_expr(info.total_size.left)
SizeOf(info) ==
    IF info.elem_size # NoExpr THEN info.elem_size ELSE strip_expr(info.total_size.right)

\* an expression whose unit get_units reads from the Path Environment
IsPlain(e) == e.type \in {"EXPR_SYMBOL", "EXPR_DEREF"} /\ get_units_ident(e) = NULL

\* C9: after the allocation hook, when one operand had unit Byte before,
\* the other operand has unit ArraySize, whatever its shape, also when both
\* had Byte.
C9_OtherOperandArraySize ==
    pc = "body" =>
        \A info \in AllocationShapes :
            LET c == match_allocation(Cur, info)
            IN  /\ get_units(Cur, CountOf(info)) = byte
                    => get_units(c, SizeOf(info)) = array_size
                /\ get_units(Cur, SizeOf(info)) = byte
                    => get_units(c, CountOf(info)) = array_size

\* C9 as amended: the other operand is ArraySize after the hook when it is
\* a plain variable or member (its unit comes from the Path Environment);
\* of two distinct plain operands that both had Byte only the second is
\* retagged and the first stays Byte.
C9_PlainOperandArraySize ==
    pc = "body" =>
        \A info \in AllocationShapes :
            LET c == match_allocation(Cur, info)
                l == CountOf(info)
                r == SizeOf(info)
            IN  /\ (get_units(Cur, l) = byte /\ IsPlain(r))
                    => get_units(c, r) = array_size
                /\ (get_units(Cur, r) = byte /\ IsPlain(l)
                        /\ ~(get_units(Cur, l) = byte /\ IsPlain(r)))
                    => get_units(c, l) = array_size
                /\ (get_units(Cur, l) = byte /\ get_units(Cur, r) = byte
                        /\ IsPlain(l) /\ IsPlain(r) /\ l # r)
                    => get_units(c, l) = byte

C9_Witness ==
    /\ ev = "match_allocation"
    /\ states["a"] = byte /\ states["m"] = array_size
    /\ type_info = <<[key |-> s_len, value |-> "array_size"]>>
    /\ start_states["a"] = byte

SizeofShaped ==
    {Sizeof, PtrSizeof, Paren(Sizeof), Paren(Paren(PtrSizeof)),
     Expr("EXPR_SIZEOF", "", "jiffies", "", {}, FALSE, -1)}

RightOperands == {K4096, K8, PAGE_SIZE, PAGE_SHIFT, BITS_PER_LONG, A, M, Sizeof}

\* binary expressions written in the analysed function
PlainBinops ==
    {Binop(l, o, r, "") : l \in {A, M}, o \in {"*", "/", "<<", ">>"}, r \in RightOperands}

\* binary expressions a macro expands to, at the position of the macro's name
IdiomBinops ==
    {ARRAY_SIZE, Binop(A, "/", K4096, "ARRAY_SIZE"),
     Binop(M, "*", PAGE_SIZE, "jiffies"), Binop(A, ">>", K8, "BITS_PER_LONG"),
     Binop(Value(1), "<<", PAGE_SHIFT, "PAGE_SIZE"), Binop(A, "<<", K8, "PAGE_SIZE")}

\* the unit the fixed rules give a binary expression
RuleUnits(e) ==
    CASE e.op = "*" /\ (e.right = K4096 \/ e.right = PAGE_SIZE) -> byte
      [] e.op = "/" /\ (e.right = K4096 \/ e.right = PAGE_SIZE) -> page
      [] e.op = "/" /\ e.right = BITS_PER_LONG -> longs
      [] e.op = "<<" /\ e.right = PAGE_SHIFT -> byte
      [] e.op = ">>" /\ e.right = PAGE_SHIFT -> page
      [] OTHER -> NULL

\* C10: whatever the Path Environment, the fact store and the left operand
\* are, a sizeof-shaped expression is Byte and a "*", "/", "<<" or ">>"
\* expression has the unit its right operand fixes, or none.
C10_SyntacticRules ==
    pc = "body" =>
        /\ \A e \in SizeofShaped : get_units(Cur, e) = byte
        /\ \A e \in PlainBinops \cup IdiomBinops : get_units(Cur, e) = RuleUnits(e)

\* C10 as amended: the same for a binary expression that is not itself at
\* the position of a recognized macro idiom; one that is gets the idiom's unit.
C10_SyntacticRulesOutsideIdioms ==
    pc = "body" =>
        /\ \A e \in SizeofShaped : get_units(Cur, e) = byte
        /\ \A e \in PlainBinops : get_units(Cur, e) = RuleUnits(e)
        /\ \A e \in IdiomBinops : get_units(Cur, e) = get_units_ident(e)

C10_Witness ==
    /\ pc = "body"
    /\ states["a"] = page
    /\ type_info # <<>>
    /\ get_units(Cur, M) = byte
    /\ get_units(Cur, Binop(A, "*", K4096, "")) = byte
    /\ get_units(Cur, Binop(M, "/", PAGE_SIZE, "")) = page
    /\ get_units(Cur, Binop(M, ">>", A, "")) = NULL

----------------------------------------------------------------------------
(* The parameter-to-mtag-data checker.  A persisted value is text: a        *)
(* sequence of characters.  t is the checker's context: its Path            *)
(* Environment (states) and the rows inserted so far (out).                 *)

DigitChars == <<"0", "1", "2", "3", "4", "5", "6", "7", "8", "9">>
IsDigit(ch) == \E i \in DOMAIN DigitChars : DigitChars[i] = ch
DigitOf(ch) == (CHOOSE i \in DOMAIN DigitChars : DigitChars[i] = ch) - 1

RECURSIVE SkipSpace(_)
SkipSpace(s) == IF s # <<>> /\ Head(s) = " " THEN SkipSpace(Tail(s)) ELSE s

\* the number the leading decimal digits of s spell, acc so far
RECURSIVE LeadingDigits(_, _)
LeadingDigits(s, acc) ==
    IF s = <<>> \/ ~IsDigit(Head(s)) THEN acc
    ELSE LeadingDigits(Tail(s), acc * 10 + DigitOf(Head(s)))

\* strtoul(value, NULL, 10): blanks, an optional "+", then digits; no digits
\* give 0 (a "-" sign, which wraps modulo 2^64, is not among the inputs)
strtoul(value) ==
    LET s == SkipSpace(value)
    IN  IF s # <<>> /\ Head(s) = "+" THEN LeadingDigits(Tail(s), 0)
        ELSE LeadingDigits(s, 0)

\* strchr(value, c): the index of the first c in value, 0 when there is none
RECURSIVE strchr_from(_, _, _)
strchr_from(value, ch, i) ==
    IF i > Len(value) THEN 0
    ELSE IF value[i] = ch THEN i
    ELSE strchr_from(value, ch, i + 1)

strchr(value, ch) == strchr_from(value, ch, 1)

\* atoi(): blanks, an optional sign, then digits
atoi(str) ==
    LET s == SkipSpace(str)
    IN  IF s # <<>> /\ Head(s) = "-" THEN 0 - LeadingDigits(Tail(s), 0)
        ELSE IF s # <<>> /\ Head(s) = "+" THEN LeadingDigits(Tail(s), 0)
        ELSE LeadingDigits(s, 0)

\* printf's %d and %lld
RECURSIVE FormatInt(_)
FormatInt(n) ==
    IF n < 0 THEN <<"-">> \o FormatInt(0 - n)
    ELSE IF n < 10 THEN <<DigitChars[n + 1]>>
    ELSE FormatInt(n \div 10) \o <<DigitChars[(n % 10) + 1]>>

\* the characters as one string
RECURSIVE Str(_)
Str(s) == IF s = <<>> THEN "" ELSE Head(s) \o Str(Tail(s))

\* host: get_argument_from_call_expr(); param counts from 0
get_argument_from_call_expr(args, param) ==
    IF param + 1 \in DOMAIN args THEN args[param + 1] ELSE NoExpr

\* host: expr_to_mtag_name_offset() fails, or answers tag, name and offset
NoLoc == [ok |-> FALSE]
Loc(tg, data_name, offset) ==
    [ok |-> TRUE, tag |-> tg, data_name |-> data_name, offset |-> offset]

set_tag_state(t, expr, state) ==
    [t EXCEPT !.states = set_state_expr(@, expr, state)]

\* loc: what expr_to_mtag_name_offset() answers for the left side
mtag_match_assign(t, expr, loc) ==
    LET left == strip_expr(expr.left)
        right == strip_expr(expr.right)
        param == right.param
    IN  IF expr.op # "=" THEN t
        ELSE IF right.type # "EXPR_SYMBOL" THEN t
        ELSE IF param < 0 THEN t
        ELSE IF ~loc.ok THEN t
        ELSE set_tag_state(t, left,
                alloc_tag_data_state(loc.tag, loc.data_name, loc.offset, param))

\* a deferral that records the callee's parameter index
propogate_assignment_callee_param(t, expr, param, tg, offset) ==
    LET arg == get_argument_from_call_expr(expr.args, param)
        orig_param == arg.param
        buf == Str(<<"$", "-", ">", "[">> \o FormatInt(offset) \o <<"]">>)
    IN  IF arg = NoExpr THEN [t |-> t, ret |-> FALSE]
        ELSE IF arg.type # "EXPR_SYMBOL" THEN [t |-> t, ret |-> FALSE]
        ELSE IF orig_param < 0 THEN [t |-> t, ret |-> FALSE]
        ELSE [t |-> set_tag_state(t, arg, alloc_tag_data_state(tg, buf, offset, param)),
              ret |-> TRUE]

\* the context after, and whether the fact was deferred (the return value)
propogate_assignment(t, expr, param, tg, offset) ==
    LET arg == get_argument_from_call_expr(expr.args, param)
        orig_param == arg.param
        buf == Str(<<"$", "-", ">", "[">> \o FormatInt(offset) \o <<"]">>)
    IN  IF arg = NoExpr THEN [t |-> t, ret |-> FALSE]
        ELSE IF arg.type # "EXPR_SYMBOL" THEN [t |-> t, ret |-> FALSE]
        ELSE IF orig_param < 0 THEN [t |-> t, ret |-> FALSE]
        ELSE [t |-> set_tag_state(t, arg, alloc_tag_data_state(tg, buf, offset, orig_param)),
              ret |-> TRUE]

\* host: create_mtag_alias() fails, or makes the alias of the tag at the call
Alias(tg, expr) == <<"alias", tg, expr.fn>>

\* an alias mapped at the callee's offset
assign_to_alias_same_sign(t, expr, param, tg, offset, host) ==
    LET arg == get_argument_from_call_expr(expr.args, param)
        alias == Alias(tg, expr)
        t1 == [t EXCEPT !.out = @ \o
                  <<[table |-> "mtag_alias", tag |-> tg, alias |-> alias],
                    [table |-> "mtag_data", tag |-> alias, offset |-> offset]>>]
    IN  IF arg = NoExpr THEN t
        ELSE IF ~host.alias_ok THEN t
        ELSE IF host.arg_tag # <<>>
        THEN [t1 EXCEPT !.out = Append(@, [table |-> "mtag_map", tag |-> host.arg_tag[1],
                                          offset |-> offset, alias |-> alias])]
        ELSE t1

\* host: whether create_mtag_alias() succeeds, and what get_mtag() answers
\* for the argument (<<>> when it fails)
assign_to_alias(t, expr, param, tg, offset, host) ==
    LET arg == get_argument_from_call_expr(expr.args, param)
        alias == Alias(tg, expr)
        t1 == [t EXCEPT !.out = @ \o
                  <<[table |-> "mtag_alias", tag |-> tg, alias |-> alias],
                    [table |-> "mtag_data", tag |-> alias, offset |-> offset]>>]
    IN  IF arg = NoExpr THEN t
        ELSE IF ~host.alias_ok THEN t
        ELSE IF host.arg_tag # <<>>
        THEN [t1 EXCEPT !.out = Append(@, [table |-> "mtag_map", tag |-> host.arg_tag[1],
                                          offset |-> 0 - offset, alias |-> alias])]
        ELSE t1

\* while (expr->type == EXPR_ASSIGNMENT) expr = strip_expr(expr->right)
RECURSIVE call_of(_)
call_of(expr) ==
    IF expr.type = "EXPR_ASSIGNMENT" THEN call_of(strip_expr(expr.right)) ELSE expr

\* a consumer that goes on to the alias after a deferral
call_does_mtag_assign_no_return(t, expr0, param, key, value, host) ==
    LET expr == call_of(expr0)
        tg == strtoul(value)
        p == strchr(value, "+")
        offset == atoi(SubSeq(value, p + 1, Len(value)))
        r == propogate_assignment(t, expr, param, tg, offset)
    IN  IF expr.type # "EXPR_CALL" THEN t
        ELSE IF p = 0 THEN t
        ELSE assign_to_alias(r.t, expr, param, tg, offset, host)

call_does_mtag_assign(t, expr0, param, key, value, host) ==
    LET expr == call_of(expr0)
        tg == strtoul(value)
        p == strchr(value, "+")
        offset == atoi(SubSeq(value, p + 1, Len(value)))
        r == propogate_assignment(t, expr, param, tg, offset)
    IN  IF expr.type # "EXPR_CALL" THEN t
        ELSE IF p = 0 THEN t
        ELSE IF r.ret THEN r.t
        ELSE assign_to_alias(t, expr, param, tg, offset, host)

\* FOR_EACH_MY_SM: the entries in the order of the stree
TagVarOrder == <<"d", "p">>

\* a callback that also reports entries without data
RECURSIVE print_entries_all(_, _)
print_entries_all(t, names) ==
    IF names = <<>> THEN t
    ELSE LET state == t.states[Head(names)]
             rest == Tail(names)
         IN  IF state = NULL THEN print_entries_all(t, rest)
             ELSE print_entries_all(
                    [t EXCEPT !.out = Append(@,
                        [table |-> "return_states",
                         param |-> IF state.data = <<>> THEN -1 ELSE state.data[3],
                         key |-> "$",
                         value |-> IF state.data = <<>> THEN <<"0", "+", "0">>
                                   ELSE FormatInt(state.data[1]) \o <<"+">>
                                            \o FormatInt(state.data[2])])],
                    rest)

RECURSIVE print_entries(_, _)
print_entries(t, names) ==
    IF names = <<>> THEN t
    ELSE LET state == t.states[Head(names)]
             rest == Tail(names)
         IN  IF state = NULL \/ state.data = <<>> THEN print_entries(t, rest)
             ELSE print_entries(
                    [t EXCEPT !.out = Append(@,
                        [table |-> "return_states", param |-> state.data[3], key |-> "$",
                         value |-> FormatInt(state.data[1]) \o <<"+">>
                                        \o FormatInt(state.data[2])])],
                    rest)

print_stored_to_mtag(t) == print_entries(t, TagVarOrder)

----------------------------------------------------------------------------
(* The parameter-to-mtag-data checker: the analysed function and the hooks  *)
(* the host calls.                                                          *)

\* most facts the host delivers at one call site
MaxFacts == 2

TP == Sym("p", 0)
TQ == Sym("q", 1)
TX == Sym("x", -1)
TD == Deref("d")
G == Call("g", <<TX, TP>>)

TagAssignExprs ==
    {Assign(TD, "=", r) : r \in {TP, Paren(TQ), TX, G}} \cup {Assign(TD, "+=", TP)}

Locations == {NoLoc, Loc(1, "$->dev_id", 0), Loc(1, "$->thread_fn", 16)}

\* the call sites: a call, and a call whose value is assigned
TagCallExprs == {G, Assign(TD, "=", G)}

\* the statements the host may deliver a fact for, one of them no call
FactExprs == TagCallExprs \cup {TP, Assign(TD, "=", Paren(TP))}

\* the parameters of the callee a fact may be about; the call has two
\* arguments
FactParams == {0, 1, 2}

Chars(tg, off) == tg \o <<"+">> \o off

\* the values print_stored_to_mtag persists: "1+8", "2+16"
TagValues == {Chars(<<"1">>, <<"8">>), Chars(<<"2">>, <<"1", "6">>)}

\* values of another form: "abc+8", "7+x", "+", "12", "" and " 3+-8"
OddValues ==
    {Chars(<<"a", "b", "c">>, <<"8">>), Chars(<<"7">>, <<"x">>), <<"+">>,
     <<"1", "2">>, <<>>, Chars(<<" ", "3">>, <<"-", "8">>)}

Hosts == [alias_ok : BOOLEAN, arg_tag : {<<>>, <<7>>}]

\* the states another path may hold for an entry at a join
OtherTagStates == {undefined, alloc_tag_data_state(2, "$->[16]", 16, 0)}

InitTag ==
    /\ pc = "entry"
    /\ states = [n \in VarNames |-> NULL]
    /\ start_states = [n \in {Arguments[i] : i \in DOMAIN Arguments} |-> NULL]
    /\ member = s_len
    /\ type_info = <<>>
    /\ ev = "init"
    /\ out = <<>>
    /\ msgs = <<>>
    /\ join = NoJoin
    /\ mtag = MtagStart

UnitsUnchanged == UNCHANGED <<pc, states, start_states, member, type_info, ev, out, msgs, join>>

\* ASSIGNMENT_HOOK
TagMatchAssign ==
    /\ \E e \in TagAssignExprs, loc \in Locations :
          mtag' = [mtag_match_assign([mtag EXCEPT !.out = <<>>], e, loc)
                        EXCEPT !.site = NoExpr, !.nfacts = 0, !.ev = "match_assign"]
    /\ UnitsUnchanged

\* select_return_states_hook(MTAG_ASSIGN): one call per fact persisted about
\* the callee; out collects the rows inserted at one call site
TagCallDoesMtagAssign ==
    /\ \E e \in TagCallExprs, param \in FactParams, host \in Hosts,
          value \in TagValues \cup {Chars(<<"a", "b", "c">>, <<"8">>)} :
          LET same == mtag.ev = "call_does_mtag_assign" /\ mtag.site = e
              n == IF same THEN mtag.nfacts ELSE 0
              t == [mtag EXCEPT !.out = IF same THEN @ ELSE <<>>]
          IN  /\ n < MaxFacts
              /\ mtag' = [call_does_mtag_assign(t, e, param, "$", value, host)
                            EXCEPT !.site = e, !.nfacts = n + 1,
                                   !.ev = "call_does_mtag_assign"]
    /\ UnitsUnchanged

\* host: two paths join; the merge hook runs for an entry
TagMergeStates ==
    /\ \E n \in TagVars, other \in OtherTagStates :
          LET cur == IF mtag.states[n] = NULL THEN undefined ELSE mtag.states[n]
          IN  mtag' = [mtag EXCEPT !.states[n] = merge_tag_info(cur, other),
                                   !.site = NoExpr, !.nfacts = 0, !.out = <<>>,
                                   !.ev = "merge"]
    /\ UnitsUnchanged

\* add_split_return_callback: at a return statement
TagReturn ==
    /\ mtag' = [print_stored_to_mtag([mtag EXCEPT !.out = <<>>])
                    EXCEPT !.site = NoExpr, !.nfacts = 0, !.ev = "print_stored_to_mtag"]
    /\ UnitsUnchanged

\* host: the function ends and its Path Environment is discarded
TagEndFunction ==
    /\ mtag.ev # "start"
    /\ mtag' = MtagStart
    /\ UnitsUnchanged

NextTag ==
    \/ TagMatchAssign
    \/ TagCallDoesMtagAssign
    \/ TagMergeStates
    \/ TagReturn
    \/ TagEndFunction

SpecTag == InitTag /\ [][NextTag]_vars

----------------------------------------------------------------------------
(* One hook event in an arbitrary environment: the walk is somewhere in a   *)
(* function body, the variables hold any states and the member has any      *)
(* facts; the host then calls one hook.                                     *)

EnvStates == {NULL, undefined, merged, byte, page, array_size}

\* the values of the facts persisted for the member so far
RECURSIVE FactSeqs(_)
FactSeqs(n) ==
    IF n = 0 THEN {<<>>}
    ELSE FactSeqs(n - 1) \cup
         {Append(s, v) : s \in {r \in FactSeqs(n - 1) : Len(r) = n - 1}, v \in {"byte", "page"}}

InitEnv ==
    /\ pc = "body"
    /\ states \in {[p |-> sp, a |-> sa, m |-> sm] :
                        sp \in {NULL, jiffy}, sa \in EnvStates, sm \in EnvStates}
    /\ start_states = [n \in {Arguments[i] : i \in DOMAIN Arguments} |-> NULL]
    /\ member \in Members
    /\ type_info \in {[i \in DOMAIN s |-> [key |-> member, value |-> s[i]]] :
                        s \in IF is_ignored_type(member) THEN {<<>>} ELSE FactSeqs(MaxRows)}
    /\ ev = "start"
    /\ out = <<>>
    /\ msgs = <<>>
    /\ join = NoJoin
    /\ mtag = MtagStart

HookEvent ==
    \/ MatchAssign
    \/ MatchBinopCheck
    \/ MatchBinopSet
    \/ MatchConditionCheck
    \/ MatchConditionSet
    \/ MatchAllocation
    \/ MatchCallInfo
    \/ SetImpliedUnits
    \/ SetParamUnitsFromTable
    \/ ProcessStates
    \/ MergeStates

NextEnv == ev = "start" /\ HookEvent

SpecEnv == InitEnv /\ [][NextEnv]_vars

----------------------------------------------------------------------------
(* Addition and subtraction. *)

SumOperands == {P, A, M, Sizeof, ARRAY_SIZE, K8}

\* sums and differences written in the analysed function
PlainSums ==
    {Binop(l, o, r, "") : l \in SumOperands, o \in {"+", "-"}, r \in SumOperands}

\* sums a macro expands to, at the position of the macro's name; the first is
\* the kernel's ARRAY_SIZE(x): sizeof(x) / sizeof(x[0]) + __must_be_array(x)
IdiomSums ==
    {Binop(ARRAY_SIZE, "+", Value(0), "ARRAY_SIZE"),
     Binop(A, "-", M, "jiffies"), Binop(M, "+", A, "PAGE_SIZE")}

\* the unit the rule for "+" and "-" gives
SumUnits(l, r) ==
    IF l = array_size \/ r = array_size THEN NULL
    ELSE IF l # NULL THEN l ELSE r

----------------------------------------------------------------------------
(* The fact store as a set. *)

\* the rows of the table in every order
RowOrders(rows) ==
    {[i \in DOMAIN rows |-> rows[f[i]]] :
        f \in {g \in [DOMAIN rows -> DOMAIN rows] : \A i, j \in DOMAIN rows : g[i] = g[j] => i = j}}

\* the table after one of its rows is inserted once more
Reinserted(rows) == {Append(rows, rows[i]) : i \in DOMAIN rows}

\* the lookup of the member when the table holds rows
Lookup(rows) == get_units_from_type([Cur EXCEPT !.type_info = rows], M)

\* what the set of values inserted for the member is to give
SetLookup ==
    IF Cardinality(Inserted(member)) = 1
    THEN str_to_units(CHOOSE v \in Inserted(member) : TRUE)
    ELSE NULL

\* C15: the lookup of a member depends only on the set of distinct values
\* inserted for it: none gives no unit, one gives that unit, two or more give
\* no unit; the order of the inserts and a repeated insert change nothing.
C15_LookupBySet ==
    /\ Lookup(type_info) = SetLookup
    /\ \A rows \in RowOrders(type_info) \cup Reinserted(type_info) :
          Lookup(rows) = Lookup(type_info)

\* C15 as amended: the same for every member but the hard-coded
\* (struct vm_area_struct)->vm_pgoff, whose lookup is Page whatever was
\* inserted.
C15_LookupBySetButPgoff ==
    /\ Lookup(type_info) = (IF member = vm_pgoff THEN page ELSE SetLookup)
    /\ \A rows \in RowOrders(type_info) \cup Reinserted(type_info) :
          Lookup(rows) = Lookup(type_info)

C15_Witness ==
    /\ ev = "match_assign"
    /\ member = s_len
    /\ Len(type_info) = 3
    /\ type_info[1].value = "page" /\ type_info[2].value = "page"
    /\ type_info[3].value = "byte"
    /\ Lookup(type_info) = NULL
    /\ Lookup(SubSeq(type_info, 1, 2)) = page

----------------------------------------------------------------------------
(* Propagation between the operands. *)

PropBinops ==
    {Binop(l, o, r, "") : l \in {A, M, P}, o \in {"+", "-", "*", "<<", ">>"},
                          r \in {A, M, K8, Sizeof, PAGE_SHIFT}}

PropCompares ==
    {Compare(l, o, r) : l \in {A, M, P}, o \in {"<", "=="}, r \in {A, M, K8, Sizeof}}

\* an operand that names a variable or a member, so that it can hold a state
IsVar(e) == e.type \in {"EXPR_SYMBOL", "EXPR_DEREF"}

\* c is the context after a set hook was called on e: the operand of unknown
\* unit holds the unit of the other, and nothing changes when both units or
\* neither are known
Propagated(c, e) ==
    LET l == get_units(Cur, e.left)
        r == get_units(Cur, e.right)
    IN  /\ (l # NULL /\ r = NULL /\ IsVar(e.right))
                => c.states = [states EXCEPT ![e.right.name] = l]
        /\ (r # NULL /\ l = NULL /\ IsVar(e.left))
                => c.states = [states EXCEPT ![e.left.name] = r]
        /\ ((l = NULL) = (r = NULL)) => c.states = states

\* C18: the binary-op-set hook, for any operator, and the condition-set hook,
\* for a comparison, give the operand of unknown unit the unit of the other
\* and change no state when both units or neither are known.
C18_Propagation ==
    ev = "start" =>
        /\ \A e \in PropBinops : Propagated(match_binop_set(Cur, e), e)
        /\ \A e \in PropCompares : Propagated(match_condition_set(Cur, e), e)

\* C18 as amended: so for a comparison, and for "+" and "-" whose left
\* operand is no pointer or array; a shift by PAGE_SHIFT sets its left operand
\* to Page ("<<") or Byte (">>") whatever the units were, and every other
\* binary expression changes no state.
C18_PropagationSumsAndCompares ==
    ev = "start" =>
        /\ \A e \in PropCompares : Propagated(match_condition_set(Cur, e), e)
        /\ \A e \in PropBinops :
              LET c == match_binop_set(Cur, e)
              IN  IF e.op \in {"<<", ">>"} /\ e.right = PAGE_SHIFT
                  THEN c.states = [states EXCEPT ![e.left.name] =
                                        IF e.op = "<<" THEN page ELSE byte]
                  ELSE IF e.op \in {"+", "-"} /\ ~e.left.ptr
                  THEN Propagated(c, e)
                  ELSE c.states = states

C18_Witness ==
    /\ ev = "match_binop_set"
    /\ member = s_len
    /\ states["a"] = page /\ states["m"] = page
    /\ type_info = <<[key |-> s_len, value |-> "byte"], [key |-> s_len, value |-> "page"]>>
    /\ Len(msgs) = 1 /\ msgs[1].warn = "other places set"

----------------------------------------------------------------------------
(* The warning about conflicting member facts. *)

RecordedUnits == {byte, page, array_size}

\* C19: recording a unit U on a member emits an "other places set" warning
\* whenever a unit other than U was persisted for the member before, also
\* when two conflicting inserts have widened the member's fact already.
C19_WarnOnConflict ==
    ev = "start" =>
        \A U \in RecordedUnits :
            (\E v \in Inserted(member) : v # U.name)
                => Count(set_units(Cur, M, U).msgs, "other places set") >= 1

\* C19 as amended: one warning exactly when the lookup of the member before
\* the insert gives a unit other than U: one distinct value was persisted
\* and it is not U, or the member is vm_pgoff and U is not Page; none once
\* the fact is widened, and none for an ignored member.
C19_WarnOnKnownConflict ==
    ev = "start" =>
        \A U \in RecordedUnits :
            LET c == set_units(Cur, M, U)
                conflict ==
                    IF member = vm_pgoff THEN U # page
                    ELSE /\ ~is_ignored_type(member)
                         /\ Cardinality(Inserted(member)) = 1
                         /\ Inserted(member) # {U.name}
            IN  /\ Count(c.msgs, "other places set") = (IF conflict THEN 1 ELSE 0)
                /\ \A i \in DOMAIN c.msgs :
                      /\ c.msgs[i].b = U.name
                      /\ member # vm_pgoff => Inserted(member) = {c.msgs[i].a}

C19_Witness ==
    /\ ev = "match_assign"
    /\ member = s_len
    /\ states["m"] = byte
    /\ type_info = <<[key |-> s_len, value |-> "page"], [key |-> s_len, value |-> "byte"]>>
    /\ Len(msgs) = 1 /\ msgs[1].warn = "other places set"
    /\ msgs[1].a = "page" /\ msgs[1].b = "byte"

----------------------------------------------------------------------------
(* The pre-merge diagnostic. *)

\* C20: the pre-merge hook emits one "ambiguous units merge" warning exactly
\* when the two states are distinct Concrete units and the current statement
\* is no return statement; it emits nothing else and changes no state.
C20_AmbiguousMergeWarning ==
    ev = "start" =>
        \A cur \in UnitStates, other \in UnitStates, stmt_return \in BOOLEAN :
            LET c == pre_merge_hook(Cur, "a", cur, other, stmt_return)
                ambiguous == /\ IsConcrete(cur) /\ IsConcrete(other) /\ cur # other
                             /\ ~stmt_return
            IN  /\ Count(c.msgs, "ambiguous units merge") = (IF ambiguous THEN 1 ELSE 0)
                /\ Len(c.msgs) = (IF ambiguous THEN 1 ELSE 0)
                /\ c.states = states
                /\ c.type_info = type_info
                /\ c.out = <<>>

C20_Witness ==
    /\ ev = "merge"
    /\ states["a"] = merged
    /\ Len(msgs) = 1
    /\ msgs[1].warn = "ambiguous units merge"
    /\ msgs[1].a = "byte" /\ msgs[1].b = "page"

----------------------------------------------------------------------------
(* Facts consumed at a call site by the parameter-to-mtag-data checker. *)

\* the rows of one table among the rows inserted
RowsOf(rows, table) == SelectSeq(rows, LAMBDA r : r.table = table)

\* the tag and offset the well-formed values spell
TagFact(value) ==
    IF value = Chars(<<"1">>, <<"8">>) THEN [tag |-> 1, offset |-> 8]
    ELSE [tag |-> 2, offset |-> 16]

\* the context after the call site e consumes one fact, starting with no rows
Consumed(e, param, value, host) ==
    call_does_mtag_assign([mtag EXCEPT !.out = <<>>], e, param, "$", value, host)

\* the rows the alias rule inserts for a fact when the host can create the
\* alias
AliasRows(e, f, host) ==
    LET alias == <<"alias", f.tag, "g">>
    IN  <<[table |-> "mtag_alias", tag |-> f.tag, alias |-> alias],
          [table |-> "mtag_data", tag |-> alias, offset |-> f.offset]>>
        \o (IF host.arg_tag = <<>> THEN <<>>
            ELSE <<[table |-> "mtag_map", tag |-> host.arg_tag[1],
                    offset |-> 0 - f.offset, alias |-> alias]>>)

\* a fact (T, O) about an argument that is no bare formal parameter creates
\* one alias of T with the argument's value at offset O and, when the
\* caller resolves the argument's tag, one map row {tag, -O, alias}
AliasPerFact ==
    \A e \in TagCallExprs, value \in TagValues, host \in Hosts :
        LET c == Consumed(e, 0, value, host)
        IN  /\ c.states = mtag.states
            /\ c.out = IF host.alias_ok THEN AliasRows(e, TagFact(value), host) ELSE <<>>

\* C12: a fact (T, O) about an argument that is no bare formal parameter
\* creates exactly one alias of T and, when the caller resolves the
\* argument's own tag, exactly one map row {caller tag, -O, alias}; all the
\* facts consumed at one call site together produce exactly one map row.
C12_OneMapPerCallSite ==
    /\ AliasPerFact
    /\ mtag.ev = "call_does_mtag_assign" => Len(RowsOf(mtag.out, "mtag_map")) <= 1

\* C12 as amended: the same for each fact, when the host creates the alias;
\* a call site that consumes n facts produces up to n map rows, one for
\* each fact whose argument's tag the caller resolves.
C12_OneMapPerFact ==
    /\ AliasPerFact
    /\ mtag.ev = "call_does_mtag_assign" =>
          /\ Len(RowsOf(mtag.out, "mtag_map")) <= mtag.nfacts
          /\ Len(RowsOf(mtag.out, "mtag_map")) <= Len(RowsOf(mtag.out, "mtag_alias"))

C12_Witness ==
    /\ mtag.ev = "call_does_mtag_assign"
    /\ mtag.site = G
    /\ mtag.nfacts = 2
    /\ RowsOf(mtag.out, "mtag_map") =
          <<[table |-> "mtag_map", tag |-> 7, offset |-> -8, alias |-> <<"alias", 1, "g">>],
            [table |-> "mtag_map", tag |-> 7, offset |-> -16, alias |-> <<"alias", 2, "g">>]>>

----------------------------------------------------------------------------
(* Deferral. *)

\* the name snprintf "$->[%d]" gives the state of a deferred fact
DeferredName(value) ==
    IF value = Chars(<<"1">>, <<"8">>) THEN "$->[8]" ELSE "$->[16]"

\* the TagAssignInfo a deferred fact leaves on the caller's parameter 0
DeferredInfo(value) ==
    [name |-> DeferredName(value),
     data |-> <<TagFact(value).tag, TagFact(value).offset, 0>>]

\* C13: a fact about an argument that is a bare formal parameter of the
\* caller is deferred: no alias, no alias data and no map row are inserted,
\* and the only effect is the TagAssignInfo {tag, offset, caller's parameter
\* index} on the argument's entry.
C13_Deferral ==
    \A e \in TagCallExprs, value \in TagValues, host \in Hosts :
        LET c == Consumed(e, 1, value, host)
        IN  /\ c.out = <<>>
            /\ c.states = [mtag.states EXCEPT !["p"] = DeferredInfo(value)]

C13_Witness ==
    /\ mtag.ev = "call_does_mtag_assign"
    /\ mtag.site = Assign(TD, "=", G)
    /\ mtag.nfacts = 1
    /\ mtag.out = <<>>
    /\ mtag.states["p"] = [name |-> "$->[16]", data |-> <<2, 16, 0>>]
    /\ mtag.states["d"] = [name |-> "$->thread_fn", data |-> <<1, 16, 0>>]

----------------------------------------------------------------------------
(* Values that cannot be parsed. *)

\* persisted values that are none of the seven unit names
NonUnitValues == {"unknown", "pages", "Byte", ""}

\* the units consumers change no entry for a value that names no unit
UnitsDecline ==
    \A value \in NonUnitValues :
        /\ \A e \in CallExprs, i \in 1..2 :
              i <= Len(e.args) => set_implied_units(Cur, e, e.args[i], "$", value) = Cur
        /\ \A name \in VarNames :
              /\ set_param_units(Cur, name, "$", value) = Cur
              /\ set_param_units_from_table(Cur, Call("f", <<A>>), name, value) = Cur

\* the tag consumer records no state and inserts no row for a value that is
\* not "<decimal tag>+<decimal offset>"
TagDecline ==
    \A value \in OddValues, e \in FactExprs, param \in FactParams, host \in Hosts :
        LET c == Consumed(e, param, value, host)
        IN  c.states = mtag.states /\ c.out = <<>>

\* C14: a persisted value that cannot be parsed makes the consuming rule
\* decline with no effect: the three units consumers change no entry when the
\* value is none of the seven unit names, and call_does_mtag_assign records
\* no state, creates no alias and persists no fact when the value is not
\* "<decimal tag>+<decimal offset>", also when its tag part is no number but
\* it contains a "+".
C14_DeclineOnUnparsable == UnitsDecline /\ TagDecline

\* what the code does with "abc+8" at g(x, p): tag 0 and offset 8, deferred
\* onto p for parameter 1 and aliased for parameter 0
C14_NonNumericTagConsumed ==
    LET value == Chars(<<"a", "b", "c">>, <<"8">>)
        host == [alias_ok |-> TRUE, arg_tag |-> <<7>>]
    IN  /\ Consumed(G, 1, value, host).states["p"] = [name |-> "$->[8]", data |-> <<0, 8, 0>>]
        /\ Consumed(G, 0, value, host).out =
              <<[table |-> "mtag_alias", tag |-> 0, alias |-> <<"alias", 0, "g">>],
                [table |-> "mtag_data", tag |-> <<"alias", 0, "g">>, offset |-> 8],
                [table |-> "mtag_map", tag |-> 7, offset |-> -8, alias |-> <<"alias", 0, "g">>]>>

----------------------------------------------------------------------------
(* Deferred facts at the caller's return points. *)

\* the return fact that carries value for the caller's parameter
ReturnFact(param, value) ==
    [table |-> "return_states", param |-> param, key |-> "$", value |-> value]

\* the context after the call site e delivers two facts, one after the
\* other, for the argument p
TwoDeferred(e, v1, v2, host) ==
    call_does_mtag_assign(Consumed(e, 1, v1, host), e, 1, "$", v2, host)

\* the rows a return point emits for the entries other than p
RowsButP == print_stored_to_mtag([mtag EXCEPT !.states["p"] = NULL, !.out = <<>>]).out

\* C16: every fact a caller consumes under the deferral rule is emitted again
\* at each of the caller's return points with the same tag and offset and the
\* caller's own parameter index; when one call delivers two or more facts for
\* the same argument, all of them are carried forward and none is
\* overwritten.
C16_AllDeferredFactsCarried ==
    \A e \in TagCallExprs, v1 \in TagValues, v2 \in TagValues, host \in Hosts :
        LET rows == print_stored_to_mtag(TwoDeferred(e, v1, v2, host)).out
        IN  /\ \E i \in DOMAIN rows : rows[i] = ReturnFact(0, v1)
            /\ \E i \in DOMAIN rows : rows[i] = ReturnFact(0, v2)

\* C16 as amended: the argument's entry holds the fact delivered last, and
\* each return point emits that one fact with its tag and offset and the
\* caller's own parameter index; a fact delivered earlier for the same
\* argument is overwritten, and no fact is emitted once the entry is merged
\* at a join with a path that also holds a state for it.
C16_LastDeferredFactCarried ==
    \A e \in TagCallExprs, v1 \in TagValues, v2 \in TagValues, host \in Hosts :
        LET c == TwoDeferred(e, v1, v2, host)
            r == print_stored_to_mtag(c)
        IN  /\ c.states["p"] = DeferredInfo(v2)
            /\ r.out = RowsButP \o <<ReturnFact(0, v2)>>
            /\ r.states = c.states
            /\ print_stored_to_mtag([r EXCEPT !.out = <<>>]).out = r.out
            /\ \A other \in OtherTagStates \ {undefined} :
                  print_stored_to_mtag(
                      [c EXCEPT !.states["p"] = merge_tag_info(@, other)]).out = RowsButP

C16_Witness ==
    /\ mtag.ev = "call_does_mtag_assign"
    /\ mtag.site = G
    /\ mtag.nfacts = 2
    /\ mtag.out = <<>>
    /\ mtag.states["p"] = [name |-> "$->[8]", data |-> <<1, 8, 0>>]
    /\ mtag.states["d"] = NULL
    /\ print_stored_to_mtag(mtag).out = <<ReturnFact(0, Chars(<<"1">>, <<"8">>))>>

----------------------------------------------------------------------------
(* The return facts of the parameter-to-mtag-data checker. *)

\* the entries that hold a Concrete TagAssignInfo
ConcreteEntries == {n \in TagVars : mtag.states[n] # NULL /\ mtag.states[n].data # <<>>}

\* the entries match_assign records: the assigned locations; the entry of an
\* argument is recorded by propogate_assignment
MatchAssignEntries == {"d"}

\* the return fact of an entry
EntryFact(n) ==
    LET data == mtag.states[n].data
    IN  ReturnFact(data[3], FormatInt(data[1]) \o <<"+">> \o FormatInt(data[2]))

\* the rows a return point emits in the current environment
Emitted == print_stored_to_mtag([mtag EXCEPT !.out = <<>>]).out

\* one row for each of the entries, with its parameter index and its
\* "tag+offset" value, and no other row
OneRowEach(entries) ==
    /\ Len(Emitted) = Cardinality(entries)
    /\ \A n \in entries : \E i \in DOMAIN Emitted : Emitted[i] = EntryFact(n)
    /\ \A i \in DOMAIN Emitted : \E n \in entries : Emitted[i] = EntryFact(n)

\* C17: at every return point print_stored_to_mtag persists exactly one
\* return fact for each entry that holds a Concrete TagAssignInfo, with the
\* entry's parameter index and "tag+offset" value, and nothing for an entry
\* that is Merged or Undefined; the facts emitted are those of the live
\* entries recorded by match_assign.
C17_RowsOfMatchAssign ==
    /\ OneRowEach(ConcreteEntries)
    /\ OneRowEach(ConcreteEntries \cap MatchAssignEntries)

\* C17 as amended: the same, and the entries are those recorded by
\* match_assign or, for a deferred fact, by propogate_assignment.
C17_RowsOfConcreteEntries ==
    /\ OneRowEach(ConcreteEntries)
    /\ mtag.ev = "print_stored_to_mtag" => mtag.out = Emitted
    /\ \A n \in TagVars : mtag.states[n] \in {merged, undefined} =>
          print_stored_to_mtag(
              [mtag EXCEPT !.states = [m \in TagVars |-> IF m = n THEN @[n] ELSE NULL],
                           !.out = <<>>]).out = <<>>

C17_Witness ==
    /\ mtag.ev = "print_stored_to_mtag"
    /\ mtag.states["d"] = merged
    /\ mtag.states["p"] = [name |-> "$->[8]", data |-> <<1, 8, 0>>]
    /\ mtag.out = <<ReturnFact(0, Chars(<<"1">>, <<"8">>))>>

----------------------------------------------------------------------------
(* Propagation at a shift by PAGE_SHIFT. *)

\* the plain variables of the analysed function, one of them a pointer
PlainVars == {A, P}

ShiftLeft(v) == Binop(v, "<<", PAGE_SHIFT, "")
ShiftRight(v) == Binop(v, ">>", PAGE_SHIFT, "")

\* c is the context after the set hook was called on the shift e of the
\* variable v: v holds unit whatever it held before, nothing else changed
\* and no diagnostic was emitted
ShiftSets(c, v, unit) ==
    /\ c.states = [states EXCEPT ![v.name] = unit]
    /\ c.msgs = msgs

\* C21: on a binary-op-set event a << PAGE_SHIFT sets the state of a plain
\* variable a to Page and a >> PAGE_SHIFT sets it to Byte, overwriting
\* whatever unit a held and without a diagnostic; afterwards
\* get_units(a << PAGE_SHIFT) = Byte with get_units(a) = Page, and
\* get_units(a >> PAGE_SHIFT) = Page with get_units(a) = Byte.
C21_ShiftPropagation ==
    ev = "start" =>
        \A v \in PlainVars :
            LET l == match_binop_set(Cur, ShiftLeft(v))
                r == match_binop_set(Cur, ShiftRight(v))
            IN  /\ ShiftSets(l, v, page)
                /\ get_units(l, ShiftLeft(v)) = byte /\ get_units(l, v) = page
                /\ ShiftSets(r, v, byte)
                /\ get_units(r, ShiftRight(v)) = page /\ get_units(r, v) = byte

C21_Witness ==
    /\ ev = "match_binop_set"
    /\ states["a"] = page /\ states["m"] = array_size /\ states["p"] = jiffy
    /\ msgs = <<>>
    /\ get_units(Cur, ShiftLeft(A)) = byte
    /\ get_units(Cur, A) = page
    /\ match_binop_set(Cur, ShiftRight(A)).states["a"] = byte

====
